---- MODULE Spec2Model ----
(***************************************************************************)
(* The openstack_compute_servergroup_v2 resource handler                   *)
(* (openstack/resource_openstack_compute_servergroup_v2.go): schema        *)
(* validation, Create, Read, Delete and the passthrough importer, run by   *)
(* the plugin host against a remote compute API.                           *)
(*                                                                         *)
(* The remote API is the environment: it keeps the server groups, assigns  *)
(* identities, may fail any call, may lose a group or add a member to it   *)
(* out of band (also between the create call and the read-back get of a    *)
(* Create), and answers a get in the legacy shape (policies) or the modern *)
(* one (policy and rules).  "region" and "value_specs" are passed through  *)
(* unchanged and are left out.                                             *)
(***************************************************************************)
EXTENDS Integers, Sequences, FiniteSets, TLC

\* ---- bounds -------------------------------------------------------------
MaxIds == 2        \* identities the remote system can assign
MaxPerHost == 2    \* largest max_server_per_host a configuration carries

\* ---- values -------------------------------------------------------------
NoId == 0                       \* d.Id() == "" : nothing tracked
PinnedVersion == "2.64"         \* computeClient.Microversion = "2.64"
AntiAffinity == "anti-affinity"

Names == {"g1", "g2"}
PolicyLists == {<<>>, <<"affinity">>}
PolicyValues == {"", "affinity", AntiAffinity}
\* a "rules" block: max_server_per_host left out, or given (any integer)
RuleBlocks == {[set |-> FALSE, v |-> 0]} \cup
              {[set |-> TRUE, v |-> n] : n \in (0 - 1)..MaxPerHost}
RuleLists == {<<>>} \cup {<<b>> : b \in RuleBlocks}

Configs == [name : Names, policies : PolicyLists, policy : PolicyValues,
            rules : RuleLists]
NoCfg == [name |-> "", policies |-> <<>>, policy |-> "", rules |-> <<>>]

\* the state the host keeps when nothing is tracked
NullState == [id |-> NoId, name |-> "", policies |-> <<>>, policy |-> "",
              rules |-> <<>>, members |-> <<>>]

NoOpts == [Name |-> "", Policies |-> <<>>, Policy |-> "", Rules |-> <<>>]

VARIABLES
    cfg,      \* configuration handed to the latest Validate / Create
    op,       \* the latest operation
    result,   \* its diagnostics ("ok" when there are none)
    calls,    \* the remote calls it issued, in order
    clientUp, \* whether it could create its compute client
    d,        \* the tracked resource: stored identity and output fields
    prevId,   \* identity of the latest destroyed resource (host retry)
    remote,   \* the remote system: identity -> <<>> or <<server group>>
    nextId    \* next identity the remote system assigns

vars == <<cfg, op, result, calls, clientUp, d, prevId, remote, nextId>>

\* ---- diagnostics --------------------------------------------------------
ErrClient == "Error creating OpenStack compute client"
ErrBothPolicies == "Cannot create with both \"policies\" and \"policy\" field specified"
ErrPoliciesRules == "Cannot use \"policies\" field with \"rules\""
ErrCreate == "Error creating openstack_compute_servergroup_v2"
ErrRead == "Error retrieving openstack_compute_servergroup_v2"
ErrDelete == "Error deleting openstack_compute_servergroup_v2"
ErrValidate == "expected max_server_per_host to be at least (1)"
Panic == "panic: interface conversion"

\* the error kinds of the design, by the message the handler builds
ErrorKind(diag) ==
    CASE diag = "ok" -> "none"
      [] diag = ErrClient -> "ClientInitializationError"
      [] diag \in {ErrBothPolicies, ErrPoliciesRules} -> "ConfigurationConflict"
      [] diag = ErrCreate -> "RemoteCreateError"
      [] diag = ErrRead -> "RemoteReadError"
      [] diag = ErrDelete -> "RemoteDeleteError"
      [] diag = ErrValidate -> "ValidationError"
      [] OTHER -> "crash"

\* ---- schema validation --------------------------------------------------
\* (variant: the bound is taken one too low)
IntAtLeast_OffByOne(min, v) == v >= min - 1

\* validation.IntAtLeast(1): TRUE when the value is accepted
IntAtLeast(min, v) == v >= min

\* the host validates every configured attribute that has a ValidateFunc;
\* an attribute left out is not validated
ValidateConfig(c) ==
    IF \A i \in 1..Len(c.rules) :
          c.rules[i].set => IntAtLeast(1, c.rules[i].v)
    THEN "ok" ELSE ErrValidate

\* ---- reading the configuration (d.Get / d.GetOk) -------------------------
\* d.Get of the "rules" list: a block's absent max_server_per_host reads 0
RulesValue(rules) ==
    [i \in 1..Len(rules) |->
        [max_server_per_host |-> IF rules[i].set THEN rules[i].v ELSE 0]]

\* d.GetOk("rules"): the value is held as []interface{}; ok when non-empty
GetOkRules(dd) ==
    [v |-> [type |-> "[]interface {}", elems |-> dd.rules],
     ok |-> Len(dd.rules) > 0]

\* rules_v.([]map[string]interface{}): the assertion holds only for a value
\* of exactly that dynamic type, and panics otherwise
AssertSliceOfMaps(v) == v.type = "[]map[string]interface {}"

\* the ResourceData a Create starts from: the configuration, no identity
NewData(c) ==
    [id |-> NoId, name |-> c.name, policies |-> c.policies,
     policy |-> c.policy, rules |-> RulesValue(c.rules), members |-> <<>>]

\* the host keeps no state for a resource without identity
HostState(dd) == IF dd.id = NoId THEN NullState ELSE dd

\* ---- the remote compute API (environment) --------------------------------
NoGroups == [i \in 1..MaxIds |-> <<>>]

\* servergroups.Create: the remote system stores the request under a new
\* identity and returns it, or fails
RemoteCreate(rem, newId, opts, accept) ==
    IF accept
    THEN [err |-> FALSE, id |-> newId,
          remote |-> [rem EXCEPT ![newId] =
                        <<[name |-> opts.Name, policies |-> opts.Policies,
                           policy |-> opts.Policy, rules |-> opts.Rules,
                           members |-> <<>>]>>]]
    ELSE [err |-> TRUE, id |-> NoId, remote |-> rem]

\* the two response shapes of a get: policies, or policy and rules
LegacyShape(e) ==
    [Name |-> e.name,
     Policies |-> IF e.policies # <<>> THEN e.policies ELSE <<e.policy>>,
     Policy |-> <<>>, Rules |-> <<>>, Members |-> e.members]
ModernShape(e) ==
    [Name |-> e.name, Policies |-> <<>>,
     Policy |-> <<IF e.policies # <<>> THEN e.policies[1] ELSE e.policy>>,
     Rules |-> <<IF e.rules # <<>> THEN e.rules[1] ELSE 0>>,
     Members |-> e.members]
NoGroup == [Name |-> "", Policies |-> <<>>, Policy |-> <<>>, Rules |-> <<>>,
            Members |-> <<>>]

\* servergroups.Get: found, not found (404), or another error
RemoteGet(rem, i, fault, shape) ==
    IF fault THEN [status |-> "err", sg |-> NoGroup]
    ELSE IF rem[i] = <<>> THEN [status |-> "404", sg |-> NoGroup]
    ELSE [status |-> "ok",
          sg |-> IF shape = "modern" THEN ModernShape(rem[i][1])
                 ELSE LegacyShape(rem[i][1])]

\* servergroups.Delete: deleted, not found (404), or another error
RemoteDelete(rem, i, fault) ==
    IF fault THEN [status |-> "err", remote |-> rem]
    ELSE IF rem[i] = <<>> THEN [status |-> "404", remote |-> rem]
    ELSE [status |-> "ok", remote |-> [rem EXCEPT ![i] = <<>>]]

\* a server group is deleted out of band
Vanished(rem, i) == [rem EXCEPT ![i] = <<>>]

\* an instance joins a server group (at most one in this model)
Joined(rem, i) == [rem EXCEPT ![i][1].members = <<"vm1">>]

\* the remote system between the create call and the read-back get of a
\* Create: the new group is as created, deleted, or joined by an instance
Between(rem, i, what) ==
    CASE what = "lost" -> Vanished(rem, i)
      [] what = "joined" -> Joined(rem, i)
      [] OTHER -> rem

\* one entry of the call journal
Call(o, i, mv, status, opts) ==
    [op |-> o, id |-> i, mv |-> mv, status |-> status, opts |-> opts]

\* ---- helpers of the provider ---------------------------------------------
\* config.ComputeV2Client: a new service client, no microversion requested
ComputeV2Client(available) ==
    [err |-> ~available, client |-> [Microversion |-> ""]]

\* expandComputeServerGroupV2Policies: the configured list as strings; the
\* client it is given keeps requesting no specific version
expandComputeServerGroupV2Policies(client, raw) ==
    [client |-> client, policies |-> raw]

\* CheckDeleted: "not found" drops the identity and is no error; any other
\* error is returned with the message as context
CheckDeleted(dd, status, msg) ==
    IF status = "404"
    THEN [d |-> [dd EXCEPT !.id = NoId], err |-> "ok"]
    ELSE [d |-> dd, err |-> msg]

\* d.Set of a TypeString attribute: a value that is not a string is refused
\* (the error is dropped by the caller) and the attribute keeps its value
SetString(old, val) == IF val.type = "string" THEN val.v ELSE old

\* what the environment does during one operation
Envs == [clientOK : BOOLEAN,      \* the compute client can be created
         accept : BOOLEAN,        \* the remote create succeeds
         between : {"none", "lost", "joined"},
                                  \* what happens to the new group between
                                  \* the create call and the read-back get
         readClientOK : BOOLEAN,  \* the read-back can create its client
         fault : BOOLEAN,         \* the remote get / delete fails otherwise
         shape : {"legacy", "modern"}]

\* the outcome of a handler
Out(dd, rem, diag, cs) == [d |-> dd, remote |-> rem, diag |-> diag, calls |-> cs]

\* ---- Read ------------------------------------------------------------------
\* (variant: every failed get is returned as an error)
ReadFailure_AlwaysError(dd, status) == [d |-> dd, err |-> ErrRead]

\* (variant: every failed get drops the stored identity)
ReadFailure_AlwaysDrops(dd, status) ==
    [d |-> [dd EXCEPT !.id = NoId], err |-> IF status = "404" THEN "ok" ELSE ErrRead]

\* a failed get: diag.FromErr(CheckDeleted(d, err, "Error retrieving ..."))
ReadFailure(dd, status) == CheckDeleted(dd, status, ErrRead)

resourceComputeServerGroupV2Read(dd, rem, clientOK, fault, shape) ==
    LET cc == ComputeV2Client(clientOK) IN
    IF cc.err THEN Out(dd, rem, ErrClient, <<>>)
    ELSE
      LET resp == RemoteGet(rem, dd.id, fault, shape)
          call == Call("get", dd.id, cc.client.Microversion, resp.status, NoOpts)
          sg == resp.sg
      IN
      IF resp.status # "ok"
      THEN LET cd == ReadFailure(dd, resp.status)
           IN Out(cd.d, rem, cd.err, <<call>>)
      ELSE
        LET d1 == [dd EXCEPT !.name = sg.Name]
            d2 == IF Len(sg.Policies) > 0
                  THEN [d1 EXCEPT !.policy =
                          SetString(@, [type |-> "[]string", v |-> sg.Policies])]
                  ELSE d1
            d3 == [d2 EXCEPT !.members = sg.Members]
            d4 == IF sg.Policy # <<>>
                  THEN [d3 EXCEPT !.policy =
                          SetString(@, [type |-> "string", v |-> sg.Policy[1]])]
                  ELSE d3
            d5 == IF sg.Rules # <<>>
                  THEN [d4 EXCEPT !.rules =
                          <<[max_server_per_host |-> sg.Rules[1]]>>]
                  ELSE d4
        IN Out(d5, rem, "ok", <<call>>)

\* ---- Delete ----------------------------------------------------------------
\* (variant: a failed delete is not reported)
DeleteFailure_Swallowed(dd, status) == [d |-> dd, err |-> "ok"]

\* a failed delete: diag.FromErr(CheckDeleted(d, err, "Error deleting ..."))
DeleteFailure(dd, status) == CheckDeleted(dd, status, ErrDelete)

resourceComputeServerGroupV2Delete(dd, rem, clientOK, fault) ==
    LET cc == ComputeV2Client(clientOK) IN
    IF cc.err THEN Out(dd, rem, ErrClient, <<>>)
    ELSE
      LET resp == RemoteDelete(rem, dd.id, fault)
          call == Call("delete", dd.id, cc.client.Microversion, resp.status, NoOpts)
      IN
      IF resp.status # "ok"
      THEN LET cd == DeleteFailure(dd, resp.status)
           IN Out(cd.d, resp.remote, cd.err, <<call>>)
      ELSE Out(dd, resp.remote, "ok", <<call>>)

\* ---- Create ----------------------------------------------------------------
\* (variant: only a list of several policies conflicts with "policy")
ConflictPoliciesPolicy_LongList(policies, policy) ==
    Len(policies) > 1 /\ policy # ""

\* both "policies" and "policy" given
ConflictPoliciesPolicy(policies, policy) ==
    Len(policies) > 0 /\ policy # ""

\* (variant: the test of rules_set is inverted)
ConflictPoliciesRules_Inverted(policies, rules_set) ==
    Len(policies) > 0 /\ ~rules_set

\* "policies" given together with "rules"
ConflictPoliciesRules(policies, rules_set) ==
    Len(policies) > 0 /\ rules_set

\* (variant: the version is pinned before the shapes are told apart)
CreateClient_AlwaysPinned(client, policies) ==
    [client EXCEPT !.Microversion = PinnedVersion]

\* the client of the create call: pinned unless "policies" is given
CreateClient(client, policies) ==
    IF Len(policies) > 0 THEN client
    ELSE [client EXCEPT !.Microversion = PinnedVersion]

\* the request: [diag, opts]
CreateOpts(name, policies, policy, rules_v, rules_set) ==
    IF Len(policies) > 0
    THEN [diag |-> "ok",
          opts |-> [Name |-> name, Policies |-> policies, Policy |-> "",
                    Rules |-> <<>>]]
    ELSE IF policy = AntiAffinity /\ rules_set
    THEN IF ~AssertSliceOfMaps(rules_v)
         THEN [diag |-> Panic, opts |-> NoOpts]
         ELSE [diag |-> "ok",
               opts |-> [Name |-> name, Policies |-> <<>>, Policy |-> policy,
                         Rules |-> <<rules_v.elems[1].max_server_per_host>>]]
    ELSE [diag |-> "ok",
          opts |-> [Name |-> name, Policies |-> <<>>, Policy |-> policy,
                    Rules |-> <<>>]]

resourceComputeServerGroupV2Create(dd, rem, newId, env) ==
    LET cc == ComputeV2Client(env.clientOK) IN
    IF cc.err THEN Out(dd, rem, ErrClient, <<>>)
    ELSE
      LET name == dd.name
          ex == expandComputeServerGroupV2Policies(cc.client, dd.policies)
          policies == ex.policies
          policy == dd.policy
          rules == GetOkRules(dd)
          client == CreateClient(ex.client, policies)
          req == CreateOpts(name, policies, policy, rules.v, rules.ok)
      IN
      IF ConflictPoliciesPolicy(policies, policy)
      THEN Out(dd, rem, ErrBothPolicies, <<>>)
      ELSE IF ConflictPoliciesRules(policies, rules.ok)
      THEN Out(dd, rem, ErrPoliciesRules, <<>>)
      ELSE IF req.diag # "ok"
      THEN Out(dd, rem, req.diag, <<>>)
      ELSE
        LET cr == RemoteCreate(rem, newId, req.opts, env.accept)
            call == Call("create", cr.id, client.Microversion,
                         IF cr.err THEN "err" ELSE "ok", req.opts)
        IN
        IF cr.err THEN Out(dd, rem, ErrCreate, <<call>>)
        ELSE
          LET d1 == [dd EXCEPT !.id = cr.id]
              rem1 == Between(cr.remote, cr.id, env.between)
              rd == resourceComputeServerGroupV2Read(d1, rem1,
                        env.readClientOK, env.fault, env.shape)
          IN Out(rd.d, rem1, rd.diag, <<call>> \o rd.calls)

\* ---- the state machine -----------------------------------------------------
Init ==
    /\ cfg = NoCfg
    /\ op = "init"
    /\ result = "ok"
    /\ calls = <<>>
    /\ clientUp = TRUE
    /\ d = NullState
    /\ prevId = NoId
    /\ remote = NoGroups
    /\ nextId = 1

\* the host validates a configuration against the schema
Validate ==
    \E c \in Configs :
      /\ cfg' = c
      /\ op' = "Validate"
      /\ result' = ValidateConfig(c)
      /\ calls' = <<>>
      /\ clientUp' = TRUE
      /\ UNCHANGED <<d, prevId, remote, nextId>>

\* the host applies a validated configuration to a resource it does not track
Create ==
    /\ op = "Validate" /\ result = "ok"
    /\ d.id = NoId
    /\ nextId <= MaxIds
    /\ \E env \in Envs :
         LET out == resourceComputeServerGroupV2Create(NewData(cfg), remote,
                                                       nextId, env)
         IN /\ op' = "Create"
            /\ result' = out.diag
            /\ calls' = out.calls
            /\ clientUp' = env.clientOK
            \* a crashed plugin returns no state
            /\ d' = IF out.diag = Panic THEN NullState ELSE HostState(out.d)
            /\ remote' = out.remote
            /\ nextId' = IF \E k \in 1..Len(out.calls) :
                               out.calls[k].op = "create" /\ out.calls[k].status = "ok"
                         THEN nextId + 1 ELSE nextId
            /\ UNCHANGED <<cfg, prevId>>

\* the host refreshes a tracked resource
Read ==
    /\ d.id # NoId
    /\ \E clientOK \in BOOLEAN, fault \in BOOLEAN, shape \in {"legacy", "modern"} :
         LET out == resourceComputeServerGroupV2Read(d, remote, clientOK, fault, shape)
         IN /\ op' = "Read"
            /\ result' = out.diag
            /\ calls' = out.calls
            /\ clientUp' = clientOK
            /\ d' = HostState(out.d)
            /\ cfg' = NoCfg
            /\ UNCHANGED <<prevId, remote, nextId>>

\* the host destroys a tracked resource; without diagnostics it drops the state
Delete ==
    /\ d.id # NoId
    /\ \E clientOK \in BOOLEAN, fault \in BOOLEAN :
         LET out == resourceComputeServerGroupV2Delete(d, remote, clientOK, fault)
         IN /\ op' = "Delete"
            /\ result' = out.diag
            /\ calls' = out.calls
            /\ clientUp' = clientOK
            /\ d' = IF out.diag = "ok" THEN NullState ELSE HostState(out.d)
            /\ remote' = out.remote
            /\ prevId' = IF out.calls # <<>> /\ out.calls[1].status = "ok"
                         THEN d.id ELSE prevId
            /\ cfg' = NoCfg
            /\ UNCHANGED nextId

\* ImportStatePassthroughContext: the given identity becomes the stored one
Import ==
    /\ d.id = NoId
    /\ \E i \in 1..MaxIds :
         /\ d' = [NullState EXCEPT !.id = i]
         /\ op' = "Import"
         /\ result' = "ok"
         /\ calls' = <<>>
         /\ clientUp' = TRUE
         /\ cfg' = NoCfg
         /\ UNCHANGED <<prevId, remote, nextId>>

\* a server group is deleted out of band
RemoteVanish ==
    \E i \in 1..MaxIds :
      /\ remote[i] # <<>>
      /\ remote' = Vanished(remote, i)
      /\ op' = "RemoteVanish"
      /\ result' = "ok"
      /\ calls' = <<>>
      /\ clientUp' = TRUE
      /\ cfg' = NoCfg
      /\ UNCHANGED <<d, prevId, nextId>>

\* an instance joins a server group (at most one in this model)
RemoteJoin ==
    \E i \in 1..MaxIds :
      /\ remote[i] # <<>>
      /\ remote[i][1].members = <<>>
      /\ remote' = Joined(remote, i)
      /\ op' = "RemoteJoin"
      /\ result' = "ok"
      /\ calls' = <<>>
      /\ clientUp' = TRUE
      /\ cfg' = NoCfg
      /\ UNCHANGED <<d, prevId, nextId>>

Next == Validate \/ Create \/ Read \/ Delete \/ Import \/ RemoteVanish \/ RemoteJoin

Spec == Init /\ [][Next]_vars

\* ---- properties ---------------------------------------------------------------
\* the calls of one kind the latest operation issued
CallsOf(kind) == {k \in 1..Len(calls) : calls[k].op = kind}

\* the configuration gives "policies" and "policy"
BothPolicies(c) == Len(c.policies) > 0 /\ c.policy # ""
\* the configuration gives "policies" and "rules", and no "policy"
PoliciesWithRules(c) == Len(c.policies) > 0 /\ c.policy = "" /\ Len(c.rules) > 0
\* the configuration gives a max_server_per_host below 1
BelowOne(c) == \E i \in 1..Len(c.rules) : c.rules[i].set /\ c.rules[i].v < 1
\* the configuration is the round-trip case: anti-affinity with a maximum >= 1
AntiAffinityWithMax(c) ==
    /\ c.policies = <<>> /\ c.policy = AntiAffinity
    /\ Len(c.rules) = 1 /\ c.rules[1].set /\ c.rules[1].v >= 1

\* C1 (as stated): a Create given both "policies" and "policy" fails with a
\* ConfigurationConflict error, issues no remote call and stores no identity.
C1_AsStated ==
    (op = "Create" /\ BothPolicies(cfg)) =>
        /\ ErrorKind(result) = "ConfigurationConflict"
        /\ calls = <<>>
        /\ d.id = NoId

\* C1 (amended): a Create given both "policies" and "policy" fails, issues no
\* remote call and stores no identity; the error is the ConfigurationConflict
\* one whenever the compute client could be created, and the client-creation
\* error otherwise.
C1_ConflictPoliciesPolicy ==
    (op = "Create" /\ BothPolicies(cfg)) =>
        /\ result = IF clientUp THEN ErrBothPolicies ELSE ErrClient
        /\ ErrorKind(result) =
             IF clientUp THEN "ConfigurationConflict" ELSE "ClientInitializationError"
        /\ calls = <<>>
        /\ d.id = NoId
        /\ d = NullState

C1_Witness ==
    /\ op = "Create" /\ BothPolicies(cfg) /\ clientUp
    /\ result = ErrBothPolicies /\ calls = <<>> /\ d.id = NoId

\* C2 (as stated): a Create given "policies" and "rules" (no "policy") fails
\* with a ConfigurationConflict error, issues no remote call and stores no
\* identity.
C2_AsStated ==
    (op = "Create" /\ PoliciesWithRules(cfg)) =>
        /\ ErrorKind(result) = "ConfigurationConflict"
        /\ calls = <<>>
        /\ d.id = NoId

\* C2 (amended): a Create given "policies" and "rules" (no "policy") fails,
\* issues no remote call and stores no identity; the error is the
\* ConfigurationConflict one whenever the compute client could be created, and
\* the client-creation error otherwise.
C2_ConflictPoliciesRules ==
    (op = "Create" /\ PoliciesWithRules(cfg)) =>
        /\ result = IF clientUp THEN ErrPoliciesRules ELSE ErrClient
        /\ ErrorKind(result) =
             IF clientUp THEN "ConfigurationConflict" ELSE "ClientInitializationError"
        /\ calls = <<>>
        /\ d.id = NoId
        /\ d = NullState

C2_Witness ==
    /\ op = "Create" /\ PoliciesWithRules(cfg) /\ clientUp
    /\ result = ErrPoliciesRules /\ calls = <<>> /\ d.id = NoId

\* C3: a get that the remote system answers with "not found" ends the Read
\* without error and with the stored identity cleared; a get that fails in any
\* other way ends it with a read error and the stored identity as it was.
C3_ReadNotFound ==
    \A k \in CallsOf("get") :
        /\ calls[k].status = "404" =>
              result = "ok" /\ d.id = NoId /\ d = NullState
        /\ calls[k].status = "err" =>
              /\ ErrorKind(result) = "RemoteReadError"
              /\ calls[k].id # NoId
              /\ d.id = calls[k].id

C3_Witness ==
    /\ op = "Read" /\ Len(calls) = 1
    /\ calls[1].op = "get" /\ calls[1].status = "404"
    /\ result = "ok" /\ d.id = NoId

\* C4: a Delete whose remote delete answers "not found" succeeds and leaves
\* the resource Absent, also when it repeats an earlier successful Delete; a
\* successful remote delete does the same; any other remote error is returned
\* and the resource stays tracked under its identity.
C4_DeleteIdempotent ==
    \A k \in CallsOf("delete") :
        /\ calls[k].status \in {"404", "ok"} =>
              /\ result = "ok" /\ d.id = NoId /\ d = NullState
              /\ remote[calls[k].id] = <<>>
        /\ calls[k].status = "err" =>
              /\ ErrorKind(result) = "RemoteDeleteError"
              /\ calls[k].id # NoId
              /\ d.id = calls[k].id

\* the second Delete of an identity that an earlier Delete removed
C4_Witness ==
    /\ op = "Delete" /\ Len(calls) = 1
    /\ calls[1].op = "delete" /\ calls[1].status = "404"
    /\ calls[1].id = prevId
    /\ result = "ok" /\ d.id = NoId

\* C5: a Create of (name n, policy anti-affinity, rules max m >= 1) in which no
\* remote call fails succeeds, and it and every later Read leave
\* name = n, policy = anti-affinity, rules = {max_server_per_host: m}.
C5_RoundTrip ==
    (/\ op = "Create" /\ AntiAffinityWithMax(cfg) /\ clientUp
     /\ \A k \in 1..Len(calls) : calls[k].status = "ok") =>
        /\ result = "ok"
        /\ d.id # NoId
        /\ d.name = cfg.name
        /\ d.policy = AntiAffinity
        /\ d.rules = <<[max_server_per_host |-> cfg.rules[1].v]>>

\* C6: the resource is Absent or Present(id).  Create acts on an Absent
\* resource and makes it Present only with the identity a successful remote
\* create returned; Read acts on a Present resource and keeps its identity,
\* or makes it Absent when the remote group is missing; Delete acts on a
\* Present resource and keeps its identity or makes it Absent; an operation
\* that returns an error never changes the identity of a Present resource.
C6_StateMachine ==
    [][ /\ d'.id \in 0..MaxIds
        /\ (d'.id = NoId => d' = NullState)
        /\ (op' = "Create" =>
              /\ d.id = NoId
              /\ (d'.id # NoId =>
                    \E k \in 1..Len(calls') :
                        /\ calls'[k].op = "create" /\ calls'[k].status = "ok"
                        /\ calls'[k].id = d'.id))
        /\ (op' = "Read" =>
              /\ d.id # NoId
              /\ \/ d'.id = d.id
                 \/ d'.id = NoId /\ remote[d.id] = <<>>)
        /\ (op' = "Delete" =>
              /\ d.id # NoId
              /\ d'.id \in {d.id, NoId})
        /\ (op' \in {"Create", "Read", "Delete"} /\ result' # "ok" /\ d.id # NoId
              => d'.id = d.id)
      ]_vars

\* a Read that found the remote group missing and made the resource Absent
C6_Witness ==
    /\ op = "Read" /\ d.id = NoId /\ result = "ok"
    /\ Len(calls) = 1 /\ calls[1].status = "404"
    /\ remote[calls[1].id] = <<>> /\ nextId > 1

\* C7: a configuration with max_server_per_host below 1 is refused by the
\* validation, which issues no remote call; no Create and no remote call is
\* ever made for such a configuration.
C7_ValidationRejects ==
    /\ (op = "Validate" /\ BelowOne(cfg)) =>
          ErrorKind(result) = "ValidationError" /\ calls = <<>>
    /\ op = "Create" => ~BelowOne(cfg)
    /\ calls # <<>> => ~BelowOne(cfg)

C7_Witness ==
    /\ op = "Validate" /\ BelowOne(cfg)
    /\ result = ErrValidate /\ calls = <<>>

\* C8: the remote create call of a Create carries the pinned version 2.64
\* exactly when "policies" is empty; with "policies" given it requests no
\* version and carries the policies list and no single policy.
C8_CreateVersion ==
    op = "Create" =>
      \A k \in CallsOf("create") :
        /\ calls[k].mv = PinnedVersion <=> cfg.policies = <<>>
        /\ cfg.policies # <<>> =>
              /\ calls[k].mv = ""
              /\ calls[k].opts.Policies = cfg.policies
              /\ calls[k].opts.Policy = ""
        /\ cfg.policies = <<>> =>
              /\ calls[k].opts.Policies = <<>>
              /\ calls[k].opts.Policy = cfg.policy

C8_Witness ==
    /\ op = "Create" /\ cfg.policies # <<>>
    /\ Len(calls) >= 1 /\ calls[1].op = "create"
    /\ calls[1].mv = "" /\ calls[1].opts.Policies = cfg.policies

\* C9: every Read that has a compute client, also the read-back of a Create,
\* issues exactly one remote get call, and every get call is pinned to the
\* version 2.64 that Create pins.
C9_ReadPinned ==
    /\ (op = "Read" /\ clientUp) => Cardinality(CallsOf("get")) = 1
    /\ Cardinality(CallsOf("get")) <= 1
    /\ \A k \in CallsOf("get") : calls[k].mv = PinnedVersion

\* C10: a Create with "policies" empty that has a compute client issues a
\* create request without a local error, and the request carries rules
\* exactly when policy is anti-affinity and "rules" is set.
C10_RulesOnlyAntiAffinity ==
    (op = "Create" /\ cfg.policies = <<>> /\ clientUp) =>
        /\ ErrorKind(result) \notin {"crash", "ConfigurationConflict"}
        /\ Cardinality(CallsOf("create")) = 1
        /\ \A k \in CallsOf("create") :
              calls[k].opts.Rules # <<>> <=>
                  (cfg.policy = AntiAffinity /\ Len(cfg.rules) > 0)

====
